---- MODULE Spec2Model ----
(***************************************************************************)
(* A model of the toyGPT byte pair encoding tokenizers:                    *)
(*   helper.py            getPairStats, merge                               *)
(*   baseTokenizer.py     BaseTokenizer (vocabulary, save, load)            *)
(*   basicTokenizer.py    BasicTokenizer (flat BPE)                         *)
(*   advanceTokenizer.py  AdvanceTokenizer (regex-segmented BPE)            *)
(*                                                                         *)
(* A Python str is a sequence of code points, a bytes object a sequence of *)
(* integers 0..255, a list of token ids a sequence of integers.  A Python  *)
(* dict is a sequence of [key, val] entries in insertion order: assigning  *)
(* to a key that is present replaces its value and keeps its position.     *)
(***************************************************************************)
EXTENDS Integers, Sequences, FiniteSets, TLC

\* ------------------------------------------------------------------ bounds

\* Longest generated training text (over Alphabet).
MaxLen == 3
\* Most merges a train call is asked for: vocab_size <= 256 + MaxMerges.
MaxMerges == 3

\* ------------------------------------------------------------- sequences

RECURSIVE SeqsUpTo(_, _)
SeqsUpTo(S, n) ==
    IF n = 0 THEN {<<>>}
    ELSE LET shorter == SeqsUpTo(S, n - 1)
         IN  shorter \cup {Append(s, x) : s \in {t \in shorter : Len(t) = n - 1}, x \in S}

RECURSIVE Flatten(_)
Flatten(lists) ==
    IF lists = <<>> THEN <<>> ELSE Head(lists) \o Flatten(Tail(lists))

Min2(a, b) == IF a <= b THEN a ELSE b

\* ------------------------------------------------------------ Python dict

DictHas(d, key) == \E k \in DOMAIN d : d[k].key = key

\* position of key in insertion order (the key must be present)
DictPos(d, key) == CHOOSE k \in DOMAIN d : d[k].key = key

DictGet(d, key) == d[DictPos(d, key)].val

\* d[key] = val
DictSet(d, key, val) ==
    IF DictHas(d, key)
    THEN [d EXCEPT ![DictPos(d, key)] = [key |-> key, val |-> val]]
    ELSE Append(d, [key |-> key, val |-> val])

\* ------------------------------------------------------------- helper.py

RECURSIVE getPairStatsFrom(_, _, _)
getPairStatsFrom(byteList, pairStats, i) ==
    IF i > Len(byteList) - 1 THEN pairStats
    ELSE LET pair == <<byteList[i], byteList[i + 1]>>
         IN  getPairStatsFrom(
                 byteList,
                 IF DictHas(pairStats, pair)
                 THEN DictSet(pairStats, pair, DictGet(pairStats, pair) + 1)
                 ELSE DictSet(pairStats, pair, 1),
                 i + 1)

\* getPairStats as a call: the caller's list after the call, and the dict
\* returned (pairStats = <<>> models pairStats = None)
getPairStatsCall(byteList, pairStats) ==
    [old |-> byteList, new |-> getPairStatsFrom(byteList, pairStats, 1)]

getPairStats(byteList, pairStats) == getPairStatsCall(byteList, pairStats).new

\* mutant: a match advances by one element, so matches may overlap
RECURSIVE mergeOverlapFrom(_, _, _, _, _)
mergeOverlapFrom(oldList, pair, idx, i, newList) ==
    IF i > Len(oldList) THEN newList
    ELSE IF i < Len(oldList) /\ oldList[i] = pair[1] /\ oldList[i + 1] = pair[2]
         THEN mergeOverlapFrom(oldList, pair, idx, i + 1, Append(newList, idx))
         ELSE mergeOverlapFrom(oldList, pair, idx, i + 1, Append(newList, oldList[i]))

\* mutant: a match writes idx over both elements instead of replacing the two
\* by one, so the list keeps its length
RECURSIVE mergeBothFrom(_, _, _, _, _)
mergeBothFrom(oldList, pair, idx, i, newList) ==
    IF i > Len(oldList) THEN newList
    ELSE IF i < Len(oldList) /\ oldList[i] = pair[1] /\ oldList[i + 1] = pair[2]
         THEN mergeBothFrom(oldList, pair, idx, i + 2, Append(Append(newList, idx), idx))
         ELSE mergeBothFrom(oldList, pair, idx, i + 1, Append(newList, oldList[i]))

\* newList = []; i = 0; while i < len(oldList): ...
RECURSIVE mergeFrom(_, _, _, _, _)
mergeFrom(oldList, pair, idx, i, newList) ==
    IF i > Len(oldList) THEN newList
    ELSE IF i < Len(oldList) /\ oldList[i] = pair[1] /\ oldList[i + 1] = pair[2]
         THEN mergeFrom(oldList, pair, idx, i + 2, Append(newList, idx))
         ELSE mergeFrom(oldList, pair, idx, i + 1, Append(newList, oldList[i]))

\* merge as a call: the caller's list after the call, and the returned list
mergeCall(oldList, pair, idx) ==
    [old |-> oldList, new |-> mergeFrom(oldList, pair, idx, 1, <<>>)]

merge(oldList, pair, idx) == mergeCall(oldList, pair, idx).new

\* mutant: among the keys with the greatest count, the last one
LastMaxCountKey(pairStats) ==
    LET k == CHOOSE k \in DOMAIN pairStats :
                 /\ \A j \in DOMAIN pairStats : pairStats[j].val <= pairStats[k].val
                 /\ \A j \in (k + 1)..Len(pairStats) : pairStats[j].val < pairStats[k].val
    IN  pairStats[k].key

\* max(pairStats, key = lambda x: pairStats[x]): the first key, in insertion
\* order, whose count is the greatest (pairStats is not empty)
MaxCountKey(pairStats) ==
    LET k == CHOOSE k \in DOMAIN pairStats :
                 /\ \A j \in DOMAIN pairStats : pairStats[j].val <= pairStats[k].val
                 /\ \A j \in 1..(k - 1) : pairStats[j].val < pairStats[k].val
    IN  pairStats[k].key

\* mutant: the comparison turned around, the rule learned last comes first
GetGreater(merge_dict, x, y) ==
    /\ DictHas(merge_dict, x)
    /\ (DictHas(merge_dict, y) => DictGet(merge_dict, x) > DictGet(merge_dict, y))

\* merge_dict.get(x, float('inf')) < merge_dict.get(y, float('inf'))
GetLess(merge_dict, x, y) ==
    /\ DictHas(merge_dict, x)
    /\ (DictHas(merge_dict, y) => DictGet(merge_dict, x) < DictGet(merge_dict, y))

\* min(pairStats, key = lambda x: merge_dict.get(x, float('inf'))): the first
\* key, in insertion order, whose value is the least (pairStats is not empty)
MinRankKey(pairStats, merge_dict) ==
    LET k == CHOOSE k \in DOMAIN pairStats :
                 /\ \A j \in DOMAIN pairStats :
                        ~GetLess(merge_dict, pairStats[j].key, pairStats[k].key)
                 /\ \A j \in 1..(k - 1) :
                        GetLess(merge_dict, pairStats[k].key, pairStats[j].key)
    IN  pairStats[k].key

\* ------------------------------------------------------- str <-> UTF-8

IsSurrogate(c) == c >= 55296 /\ c <= 57343

\* str.encode("utf-8") of one code point (not a surrogate)
Utf8OfCodePoint(c) ==
    IF c < 128 THEN <<c>>
    ELSE IF c < 2048 THEN <<192 + (c \div 64), 128 + (c % 64)>>
    ELSE IF c < 65536
         THEN <<224 + (c \div 4096), 128 + ((c \div 64) % 64), 128 + (c % 64)>>
         ELSE <<240 + (c \div 262144), 128 + ((c \div 4096) % 64),
                128 + ((c \div 64) % 64), 128 + (c % 64)>>

\* str.encode("utf-8") raises UnicodeEncodeError on a lone surrogate
Utf8Encodable(text) == \A k \in DOMAIN text : ~IsSurrogate(text[k])

RECURSIVE Utf8Encode(_)
Utf8Encode(text) ==
    IF text = <<>> THEN <<>>
    ELSE Utf8OfCodePoint(Head(text)) \o Utf8Encode(Tail(text))

IsCont(b) == b >= 128 /\ b <= 191

ReplacementChar == 65533

\* The first code point of bytes b (not empty) under
\* bytes.decode("utf-8", errors = 'replace'): [cp, used].  A malformed or
\* truncated sequence gives U+FFFD for its maximal valid prefix.
Utf8DecodeOne(b) ==
    LET n  == Len(b)
        b1 == b[1]
        \* the range the second byte must lie in, by the lead byte
        lo2 == IF b1 = 224 THEN 160 ELSE IF b1 = 240 THEN 144 ELSE 128
        hi2 == IF b1 = 237 THEN 159 ELSE IF b1 = 244 THEN 143 ELSE 191
        need == IF b1 < 128 THEN 1
                ELSE IF b1 >= 194 /\ b1 <= 223 THEN 2
                ELSE IF b1 >= 224 /\ b1 <= 239 THEN 3
                ELSE IF b1 >= 240 /\ b1 <= 244 THEN 4
                ELSE 0
        ok2 == n >= 2 /\ b[2] >= lo2 /\ b[2] <= hi2
        ok3 == ok2 /\ n >= 3 /\ IsCont(b[3])
        ok4 == ok3 /\ n >= 4 /\ IsCont(b[4])
    IN  IF need = 1 THEN [cp |-> b1, used |-> 1]
        ELSE IF need = 0 THEN [cp |-> ReplacementChar, used |-> 1]
        ELSE IF ~ok2 THEN [cp |-> ReplacementChar, used |-> 1]
        ELSE IF need = 2 THEN [cp |-> (b1 - 192) * 64 + (b[2] - 128), used |-> 2]
        ELSE IF ~ok3 THEN [cp |-> ReplacementChar, used |-> 2]
        ELSE IF need = 3
             THEN [cp |-> (b1 - 224) * 4096 + (b[2] - 128) * 64 + (b[3] - 128),
                   used |-> 3]
        ELSE IF ~ok4 THEN [cp |-> ReplacementChar, used |-> 3]
        ELSE [cp |-> (b1 - 240) * 262144 + (b[2] - 128) * 4096
                     + (b[3] - 128) * 64 + (b[4] - 128),
              used |-> 4]

RECURSIVE Utf8Decode(_)
Utf8Decode(b) ==
    IF b = <<>> THEN <<>>
    ELSE LET one == Utf8DecodeOne(b)
         IN  <<one.cp>> \o Utf8Decode(SubSeq(b, one.used + 1, Len(b)))

\* ------------------------------------------- PATTERN and re.findall

\* The character classes of PATTERN, on the code points below 256 that the
\* inputs of this model are drawn from.
IsL(c) == (c >= 65 /\ c <= 90) \/ (c >= 97 /\ c <= 122) \/ c = 233
IsN(c) == c >= 48 /\ c <= 57
IsNL(c) == c = 10 \/ c = 13
IsS(c) == c = 32 \/ (c >= 9 /\ c <= 13)
\* [^\s\p{L}\p{N}]
IsOther(c) == ~IsS(c) /\ ~IsL(c) /\ ~IsN(c)
\* (?i: ...): the lower case of an ASCII letter
Lower(c) == IF c >= 65 /\ c <= 90 THEN c + 32 ELSE c

\* the length of the longest run from position p whose characters satisfy Class
RECURSIVE RunLen(_, _, _)
RunLen(Class(_), t, p) ==
    IF p <= Len(t) /\ Class(t[p]) THEN 1 + RunLen(Class, t, p + 1) ELSE 0

\* Each alternative of PATTERN at position p: the length it matches, 0 for none.
\* '(?i:[sdmt]|ll|ve|re)
Alt1(t, p) ==
    IF t[p] # 39 THEN 0
    ELSE IF p + 1 <= Len(t) /\ Lower(t[p + 1]) \in {115, 100, 109, 116} THEN 2
    ELSE IF p + 2 <= Len(t)
            /\ <<Lower(t[p + 1]), Lower(t[p + 2])>>
                   \in {<<108, 108>>, <<118, 101>>, <<114, 101>>}
         THEN 3
         ELSE 0

\* [^\r\n\p{L}\p{N}]?+\p{L}+
Alt2(t, p) ==
    LET pre == IF ~IsNL(t[p]) /\ ~IsL(t[p]) /\ ~IsN(t[p]) THEN 1 ELSE 0
        run == RunLen(IsL, t, p + pre)
    IN  IF run > 0 THEN pre + run ELSE 0

\* \p{N}{1,3}
Alt3(t, p) == Min2(RunLen(IsN, t, p), 3)

\*  ?[^\s\p{L}\p{N}]++[\r\n]*
Alt4(t, p) ==
    LET sp  == IF t[p] = 32 THEN 1 ELSE 0
        run == RunLen(IsOther, t, p + sp)
    IN  IF run > 0 THEN sp + run + RunLen(IsNL, t, p + sp + run) ELSE 0

\* \s*[\r\n]: the whitespace run up to its last line break
Alt5(t, p) ==
    LET ws  == RunLen(IsS, t, p)
        nls == {k \in 1..ws : IsNL(t[p + k - 1])}
    IN  IF nls = {} THEN 0 ELSE CHOOSE k \in nls : \A j \in nls : j <= k

\* \s+(?!\S): the whitespace run, less its last character before a non-space
Alt6(t, p) ==
    LET ws == RunLen(IsS, t, p)
    IN  IF p + ws > Len(t) THEN ws ELSE IF ws >= 2 THEN ws - 1 ELSE 0

\* \s+
Alt7(t, p) == RunLen(IsS, t, p)

\* the first alternative that matches at p decides the match
MatchAt(t, p) ==
    IF Alt1(t, p) > 0 THEN Alt1(t, p)
    ELSE IF Alt2(t, p) > 0 THEN Alt2(t, p)
    ELSE IF Alt3(t, p) > 0 THEN Alt3(t, p)
    ELSE IF Alt4(t, p) > 0 THEN Alt4(t, p)
    ELSE IF Alt5(t, p) > 0 THEN Alt5(t, p)
    ELSE IF Alt6(t, p) > 0 THEN Alt6(t, p)
    ELSE Alt7(t, p)

RECURSIVE findallFrom(_, _)
findallFrom(t, p) ==
    IF p > Len(t) THEN <<>>
    ELSE LET m == MatchAt(t, p)
         IN  IF m = 0 THEN findallFrom(t, p + 1)
             ELSE <<SubSeq(t, p, p + m - 1)>> \o findallFrom(t, p + m)

\* re.findall(self.compiled_pattern, text)
findall(text) == findallFrom(text, 1)

\* ------------------------------------------------------ baseTokenizer.py

NoExc == "none"

\* vocab_dict[tok] = val
VocabSet(vocab_dict, tok, val) ==
    [k \in DOMAIN vocab_dict \cup {tok} |-> IF k = tok THEN val ELSE vocab_dict[k]]

\* {i: bytes([i]) for i in range(256)}
ByteVocab == [i \in 0..255 |-> <<i>>]

\* _build_vocab_dict: [exc, vocab_dict]; vocab_dict[key[0]] of an id that is
\* not yet in the vocabulary raises KeyError
RECURSIVE BuildVocabFrom(_, _, _)
BuildVocabFrom(merge_dict, k, vocab_dict) ==
    IF k > Len(merge_dict) THEN [exc |-> NoExc, vocab_dict |-> vocab_dict]
    ELSE LET key == merge_dict[k].key
             val == merge_dict[k].val
         IN  IF key[1] \notin DOMAIN vocab_dict \/ key[2] \notin DOMAIN vocab_dict
             THEN [exc |-> "KeyError", vocab_dict |-> vocab_dict]
             ELSE BuildVocabFrom(merge_dict, k + 1,
                      VocabSet(vocab_dict, val,
                               vocab_dict[key[1]] \o vocab_dict[key[2]]))

build_vocab_dict(merge_dict) == BuildVocabFrom(merge_dict, 1, ByteVocab)

\* b"".join(self.vocab_dict[t] for t in tokenIds)
RECURSIVE JoinVocab(_, _)
JoinVocab(vocab_dict, tokenIds) ==
    IF tokenIds = <<>> THEN <<>>
    ELSE vocab_dict[Head(tokenIds)] \o JoinVocab(vocab_dict, Tail(tokenIds))

\* BaseTokenizer.decode: [exc, ret]
BaseDecode(vocab_dict, tokenIds) ==
    IF \E k \in DOMAIN tokenIds : tokenIds[k] \notin DOMAIN vocab_dict
    THEN [exc |-> "KeyError", ret |-> <<>>]
    ELSE [exc |-> NoExc, ret |-> Utf8Decode(JoinVocab(vocab_dict, tokenIds))]

\* BaseTokenizer.encode: [exc, ret, picks]
BaseEncode(text) ==
    IF ~Utf8Encodable(text)
    THEN [exc |-> "UnicodeEncodeError", ret |-> <<>>, picks |-> <<>>]
    ELSE [exc |-> NoExc, ret |-> Utf8Encode(text), picks |-> <<>>]

\* ----------------------------------------------------- basicTokenizer.py

\* The result of a train call: the exception raised (NoExc for a normal
\* return), the tables as the call leaves them, the working sequence (a list
\* of segments; the flat trainer has one) and, per iteration, the working
\* sequence the iteration started from and the pair it selected.
TrainResult(exc, merge_dict, vocab_dict, work, trace) ==
    [exc |-> exc, merge_dict |-> merge_dict, vocab_dict |-> vocab_dict,
     work |-> work, trace |-> trace]

\* for i in range(num_of_merges): ...
RECURSIVE BasicTrainLoop(_, _, _, _, _, _)
BasicTrainLoop(i, num_of_merges, byte_ids, merge_dict, vocab_dict, trace) ==
    IF i >= num_of_merges
    THEN TrainResult(NoExc, merge_dict, vocab_dict, <<byte_ids>>, trace)
    ELSE LET pairStats == getPairStats(byte_ids, <<>>)
         IN  IF pairStats = <<>>
             THEN \* max() arg is an empty sequence
                  TrainResult("ValueError", merge_dict, vocab_dict, <<byte_ids>>, trace)
             ELSE LET pair == MaxCountKey(pairStats)
                  IN  BasicTrainLoop(
                          i + 1, num_of_merges,
                          merge(byte_ids, pair, 256 + i),
                          DictSet(merge_dict, pair, 256 + i),
                          VocabSet(vocab_dict, 256 + i,
                                   vocab_dict[pair[1]] \o vocab_dict[pair[2]]),
                          Append(trace, [work |-> <<byte_ids>>, pair |-> pair]))

BasicTrain(merge_dict, vocab_dict, text, vocab_size) ==
    IF vocab_size < 256
    THEN TrainResult("AssertionError", merge_dict, vocab_dict, <<>>, <<>>)
    ELSE IF ~Utf8Encodable(text)
    THEN TrainResult("UnicodeEncodeError", merge_dict, vocab_dict, <<>>, <<>>)
    ELSE BasicTrainLoop(0, vocab_size - 256, Utf8Encode(text),
                        merge_dict, vocab_dict, <<>>)

\* mutant: an if where the while is, the loop body runs once
BasicEncodeLoopOnce(merge_dict, byte_ids, picks) ==
    IF Len(byte_ids) < 2 THEN [ret |-> byte_ids, picks |-> picks]
    ELSE LET pair == MinRankKey(getPairStats(byte_ids, <<>>), merge_dict)
         IN  IF ~DictHas(merge_dict, pair)
             THEN [ret |-> byte_ids, picks |-> picks]
             ELSE [ret |-> merge(byte_ids, pair, DictGet(merge_dict, pair)),
                   picks |-> Append(picks, pair)]

\* while len(byte_ids) >= 2: ...   [ret, picks]: the list returned and the
\* pairs merged, in the order the loop selected them
RECURSIVE BasicEncodeLoop(_, _, _)
BasicEncodeLoop(merge_dict, byte_ids, picks) ==
    IF Len(byte_ids) < 2 THEN [ret |-> byte_ids, picks |-> picks]
    ELSE LET pair == MinRankKey(getPairStats(byte_ids, <<>>), merge_dict)
         IN  IF ~DictHas(merge_dict, pair)
             THEN [ret |-> byte_ids, picks |-> picks]
             ELSE BasicEncodeLoop(merge_dict,
                                  merge(byte_ids, pair, DictGet(merge_dict, pair)),
                                  Append(picks, pair))

\* BasicTokenizer.encode: [exc, ret, picks]
BasicEncode(merge_dict, text) ==
    IF ~Utf8Encodable(text)
    THEN [exc |-> "UnicodeEncodeError", ret |-> <<>>, picks |-> <<>>]
    ELSE LET r == BasicEncodeLoop(merge_dict, Utf8Encode(text), <<>>)
         IN  [exc |-> NoExc, ret |-> r.ret, picks |-> r.picks]

\* BasicTokenizer.decode: [exc, ret]
BasicDecode(vocab_dict, tokenIds) ==
    IF \E k \in DOMAIN tokenIds : tokenIds[k] \notin DOMAIN vocab_dict
    THEN [exc |-> "KeyError", ret |-> <<>>]
    ELSE [exc |-> NoExc, ret |-> Utf8Decode(JoinVocab(vocab_dict, tokenIds))]

\* --------------------------------------------------- advanceTokenizer.py

\* [list(text.encode('utf-8')) for text in text_list]
EncodeEach(text_list) == [k \in DOMAIN text_list |-> Utf8Encode(text_list[k])]

\* pairStats = {}; for subword in bytes_list: pairStats = getPairStats(subword, pairStats)
RECURSIVE AllPairStats(_, _, _)
AllPairStats(bytes_list, k, pairStats) ==
    IF k > Len(bytes_list) THEN pairStats
    ELSE AllPairStats(bytes_list, k + 1, getPairStats(bytes_list[k], pairStats))

\* for i in range(num_of_merges): ...
RECURSIVE AdvanceTrainLoop(_, _, _, _, _, _)
AdvanceTrainLoop(i, num_of_merges, bytes_list, merge_dict, vocab_dict, trace) ==
    IF i >= num_of_merges
    THEN TrainResult(NoExc, merge_dict, vocab_dict, bytes_list, trace)
    ELSE LET pairStats == AllPairStats(bytes_list, 1, <<>>)
         IN  IF pairStats = <<>>
             THEN \* max() arg is an empty sequence
                  TrainResult("ValueError", merge_dict, vocab_dict, bytes_list, trace)
             ELSE LET pair == MaxCountKey(pairStats)
                  IN  AdvanceTrainLoop(
                          i + 1, num_of_merges,
                          [k \in DOMAIN bytes_list |-> merge(bytes_list[k], pair, 256 + i)],
                          DictSet(merge_dict, pair, 256 + i),
                          VocabSet(vocab_dict, 256 + i,
                                   vocab_dict[pair[1]] \o vocab_dict[pair[2]]),
                          Append(trace, [work |-> bytes_list, pair |-> pair]))

AdvanceTrain(merge_dict, vocab_dict, text, vocab_size) ==
    IF vocab_size < 256
    THEN TrainResult("AssertionError", merge_dict, vocab_dict, <<>>, <<>>)
    ELSE IF \E k \in DOMAIN findall(text) : ~Utf8Encodable(findall(text)[k])
    THEN TrainResult("UnicodeEncodeError", merge_dict, vocab_dict, <<>>, <<>>)
    ELSE AdvanceTrainLoop(0, vocab_size - 256, EncodeEach(findall(text)),
                          merge_dict, vocab_dict, <<>>)

\* while len(subword) >= 2: ...   [ret, picks]
RECURSIVE AdvanceSubwordLoop(_, _, _)
AdvanceSubwordLoop(merge_dict, subword, picks) ==
    IF Len(subword) < 2 THEN [ret |-> subword, picks |-> picks]
    ELSE LET pair == MinRankKey(getPairStats(subword, <<>>), merge_dict)
         IN  IF ~DictHas(merge_dict, pair)
             THEN [ret |-> subword, picks |-> picks]
             ELSE AdvanceSubwordLoop(merge_dict,
                                     merge(subword, pair, DictGet(merge_dict, pair)),
                                     Append(picks, pair))

\* for subword in bytes_list: ...; encoded_text.extend(subword)
RECURSIVE AdvanceEncodeFrom(_, _, _, _)
AdvanceEncodeFrom(merge_dict, bytes_list, k, encoded_text) ==
    IF k > Len(bytes_list) THEN encoded_text
    ELSE LET r == AdvanceSubwordLoop(merge_dict, bytes_list[k], <<>>)
         IN  AdvanceEncodeFrom(merge_dict, bytes_list, k + 1,
                               [ret |-> encoded_text.ret \o r.ret,
                                picks |-> encoded_text.picks \o r.picks])

\* mutant: the text is not split, the loop runs on all its bytes at once
AdvanceEncodeFlat(merge_dict, text) ==
    IF ~Utf8Encodable(text)
    THEN [exc |-> "UnicodeEncodeError", ret |-> <<>>, picks |-> <<>>]
    ELSE LET r == AdvanceSubwordLoop(merge_dict, Utf8Encode(text), <<>>)
         IN  [exc |-> NoExc, ret |-> r.ret, picks |-> r.picks]

\* AdvanceTokenizer.encode: [exc, ret, picks]
AdvanceEncode(merge_dict, text) ==
    IF \E k \in DOMAIN findall(text) : ~Utf8Encodable(findall(text)[k])
    THEN [exc |-> "UnicodeEncodeError", ret |-> <<>>, picks |-> <<>>]
    ELSE LET r == AdvanceEncodeFrom(merge_dict, EncodeEach(findall(text)), 1,
                                    [ret |-> <<>>, picks |-> <<>>])
         IN  [exc |-> NoExc, ret |-> r.ret, picks |-> r.picks]

\* AdvanceTokenizer.decode: [exc, ret]
AdvanceDecode(vocab_dict, tokenIds) ==
    IF \E k \in DOMAIN tokenIds : tokenIds[k] \notin DOMAIN vocab_dict
    THEN [exc |-> "KeyError", ret |-> <<>>]
    ELSE [exc |-> NoExc, ret |-> Utf8Decode(JoinVocab(vocab_dict, tokenIds))]

\* ------------------------------------------------------- save and load

\* A text file is the sequence of its characters.
Space == 32
Newline == 10

\* f"{n}" of a non-negative int: its decimal digits
RECURSIVE IntToStr(_)
IntToStr(n) ==
    IF n < 10 THEN <<48 + n>> ELSE Append(IntToStr(n \div 10), 48 + (n % 10))

\* file.write(f"{p0} {p1} {value}\n")
FormatRule(entry) ==
    IntToStr(entry.key[1]) \o <<Space>> \o IntToStr(entry.key[2]) \o <<Space>>
        \o IntToStr(entry.val) \o <<Newline>>

\* for key, value in self.merge_dict.items(): file.write(...)
RECURSIVE WriteModel(_)
WriteModel(merge_dict) ==
    IF merge_dict = <<>> THEN <<>>
    ELSE FormatRule(Head(merge_dict)) \o WriteModel(Tail(merge_dict))

\* for key, value in self.vocab_dict.items(): file.write(f"{key} {value}\n"):
\* the entries written; the order of the lines and the repr of the bytes are
\* left out, nothing reads this file back
WriteVocab(vocab_dict) == {<<k, vocab_dict[k]>> : k \in DOMAIN vocab_dict}

\* for line in file: the lines of a file, each without its line break
RECURSIVE FileLines(_, _)
FileLines(content, line) ==
    IF content = <<>> THEN (IF line = <<>> THEN <<>> ELSE <<line>>)
    ELSE IF Head(content) = Newline
         THEN <<line>> \o FileLines(Tail(content), <<>>)
         ELSE FileLines(Tail(content), Append(line, Head(content)))

\* line.split(): the maximal runs of non-space characters
RECURSIVE SplitFrom(_, _)
SplitFrom(line, word) ==
    IF line = <<>> THEN (IF word = <<>> THEN <<>> ELSE <<word>>)
    ELSE IF IsS(Head(line))
         THEN (IF word = <<>> THEN <<>> ELSE <<word>>) \o SplitFrom(Tail(line), <<>>)
         ELSE SplitFrom(Tail(line), Append(word, Head(line)))

split(line) == SplitFrom(line, <<>>)

\* int(word) succeeds: the words of this model's files are digits or letters
IsInt(word) == word # <<>> /\ \A k \in DOMAIN word : IsN(word[k])

RECURSIVE ParseInt(_)
ParseInt(word) ==
    IF word = <<>> THEN 0
    ELSE 10 * ParseInt(SubSeq(word, 1, Len(word) - 1)) + (word[Len(word)] - 48)

\* for line in file: p0, p1, idx = line.split(); self.merge_dict[...] = int(idx)
\* [exc, merge_dict]: a line that does not hold three integers raises
\* ValueError, with the rules of the lines before it already stored
RECURSIVE LoadLines(_, _)
LoadLines(lines, merge_dict) ==
    IF lines = <<>> THEN [exc |-> NoExc, merge_dict |-> merge_dict]
    ELSE LET words == split(Head(lines))
         IN  IF Len(words) # 3 \/ \E k \in 1..3 : ~IsInt(words[k])
             THEN [exc |-> "ValueError", merge_dict |-> merge_dict]
             ELSE LoadLines(Tail(lines),
                            DictSet(merge_dict,
                                    <<ParseInt(words[1]), ParseInt(words[2])>>,
                                    ParseInt(words[3])))

\* BaseTokenizer.load on a file that exists: [exc, merge_dict, vocab_dict].
\* The vocabulary is rebuilt only when every line was read, and assigned only
\* when the rebuild returned.
LoadFile(merge_dict, vocab_dict, content) ==
    LET read == LoadLines(FileLines(content, <<>>), merge_dict)
        built == build_vocab_dict(read.merge_dict)
    IN  IF read.exc # NoExc
        THEN [exc |-> read.exc, merge_dict |-> read.merge_dict, vocab_dict |-> vocab_dict]
        ELSE IF built.exc # NoExc
        THEN [exc |-> built.exc, merge_dict |-> read.merge_dict, vocab_dict |-> vocab_dict]
        ELSE [exc |-> NoExc, merge_dict |-> read.merge_dict, vocab_dict |-> built.vocab_dict]

\* ------------------------------------------------------------- the state

VARIABLES
    variant,      \* the class of the tokenizer instance
    merge_dict,   \* self.merge_dict
    vocab_dict,   \* self.vocab_dict
    trainCalls,   \* train calls made on this instance
    loadCalls,    \* load calls made on this instance
    clean,        \* the instance was changed only by train and by load of files save wrote
    instances,    \* tokenizers constructed so far
    trained,      \* the last train call on this instance
    last,         \* the last call: its arguments and what it returned or raised
    model_file,   \* the .model file save writes
    vocab_file,   \* the .vocab file save writes
    saved         \* the instance as it was when save wrote model_file

vars == <<variant, merge_dict, vocab_dict, trainCalls, loadCalls, clean, instances,
          trained, last, model_file, vocab_file, saved>>

Variants == {"BaseTokenizer", "BasicTokenizer", "AdvanceTokenizer"}

\* --------------------------------------------------------------- inputs

Str_aaabdaaabac == <<97, 97, 97, 98, 100, 97, 97, 97, 98, 97, 99>>
Str_aaabac == <<97, 97, 97, 98, 97, 99>>
Str_aaaa == <<97, 97, 97, 97>>
Str_aabaab == <<97, 97, 98, 97, 97, 98>>
Str_ccbccb == <<99, 99, 98, 99, 99, 98>>
Str_ab_ab_ab == <<97, 98, 32, 97, 98, 32, 97, 98>>
Str_its == <<105, 116, 39, 115, 32, 105, 116>>
Str_eacute == <<233, 97, 233>>
Str_surrogate == <<97, 55296>>
Str_a1bang == <<97, 98, 49, 33, 10, 32, 97, 98>>
Str_abaaaaaa == <<97, 98, 97, 97, 97, 97, 97, 97>>
Str_aaaab == <<97, 97, 97, 97, 98>>
Str_1111 == <<49, 49, 49, 49>>

\* the characters of the generated training texts: a and b
Alphabet == {97, 98}
GenTexts == SeqsUpTo(Alphabet, MaxLen)

TrainTexts ==
    GenTexts \cup {Str_aaabdaaabac, Str_aaaa, Str_aabaab, Str_ab_ab_ab, Str_its,
                   Str_eacute, Str_surrogate, Str_abaaaaaa, Str_1111}

EncodeTexts ==
    {<<>>, <<97>>, <<98, 97, 97, 98>>, <<97, 97, 97>>, <<98, 32, 32, 97, 98>>,
     Str_aaabac, Str_aaabdaaabac, Str_ab_ab_ab, Str_its, Str_eacute, Str_surrogate,
     Str_a1bang, Str_aaaab, Str_1111}

\* 255 is refused by the assertion of train
VocabSizes == 255..(256 + MaxMerges)

TokenLists ==
    {<<>>, <<258, 97, 99>>, <<257, 256>>, <<195, 169>>, <<233, 97>>, <<97, 300>>}

\* direct calls of the helpers
HelperLists == {<<1, 2, 1, 2, 1, 3>>, <<1, 1, 1>>}
HelperPairs == {<<1, 2>>, <<1, 1>>}
HelperStats == {<<>>, <<[key |-> <<1, 2>>, val |-> 1]>>}

\* the training inputs of the life cycle runs
LifeTexts == {Str_aabaab, Str_ccbccb, <<97>>}
LifeVocabSizes == {258}
LifeEncodeTexts == {<<97, 97, 98>>}
LifeTokenLists == {<<257>>}

\* "97 97 256\nx\n": the second line is not three integers
File_corrupt == <<57, 55, 32, 57, 55, 32, 50, 53, 54, 10, 120, 10>>
\* "256 98 257\n97 97 256\n": the first rule uses an id the second one defines
File_out_of_order ==
    <<50, 53, 54, 32, 57, 56, 32, 50, 53, 55, 10, 57, 55, 32, 57, 55, 32, 50, 53, 54, 10>>
HandFiles == {File_corrupt, File_out_of_order}

\* life cycle bounds
MaxTrainCalls == 2
MaxLoadCalls == 1
MaxInstances == 2

\* ------------------------------------------------------------- the calls

NoCall ==
    [op |-> "init", src |-> "", text |-> <<>>, vocab_size |-> 0, tokens |-> <<>>,
     pair |-> <<>>, after |-> <<>>, exc |-> NoExc, ret |-> <<>>, picks |-> <<>>,
     stats |-> <<>>]

NotTrained ==
    [text |-> <<>>, vocab_size |-> 0, exc |-> NoExc, work |-> <<>>, trace |-> <<>>,
     merge_dict |-> <<>>]

NoFile == [exists |-> FALSE, content |-> <<>>, clean |-> TRUE]

NotSaved ==
    [variant |-> "", merge_dict |-> <<>>, vocab_dict |-> <<>>,
     trainCalls |-> 0, loadCalls |-> 0]

\* __init__: the program constructs another tokenizer and goes on with it
New(v) ==
    /\ variant' = v
    /\ merge_dict' = <<>>
    /\ vocab_dict' = build_vocab_dict(<<>>).vocab_dict
    /\ trainCalls' = 0
    /\ loadCalls' = 0
    /\ clean' = TRUE
    /\ trained' = NotTrained
    /\ last' = NoCall
    /\ instances' = instances + 1
    /\ UNCHANGED <<model_file, vocab_file, saved>>

\* the first tokenizer, as its constructor leaves it
Init ==
    /\ variant \in Variants
    /\ merge_dict = <<>>
    /\ vocab_dict = build_vocab_dict(<<>>).vocab_dict
    /\ trainCalls = 0
    /\ loadCalls = 0
    /\ clean = TRUE
    /\ trained = NotTrained
    /\ last = NoCall
    /\ instances = 1
    /\ model_file = NoFile
    /\ vocab_file = {}
    /\ saved = NotSaved

\* the train method of the instance's class
TrainOf(v, md, vd, text, vocab_size) ==
    IF v = "BasicTokenizer" THEN BasicTrain(md, vd, text, vocab_size)
    ELSE IF v = "AdvanceTokenizer" THEN AdvanceTrain(md, vd, text, vocab_size)
    ELSE TrainResult("NotImplementedError", md, vd, <<>>, <<>>)

\* the encode method of the instance's class
EncodeOf(v, md, text) ==
    IF v = "BasicTokenizer" THEN BasicEncode(md, text)
    ELSE IF v = "AdvanceTokenizer" THEN AdvanceEncode(md, text)
    ELSE BaseEncode(text)

\* the decode method of the instance's class
DecodeOf(v, vd, tokenIds) ==
    IF v = "BasicTokenizer" THEN BasicDecode(vd, tokenIds)
    ELSE IF v = "AdvanceTokenizer" THEN AdvanceDecode(vd, tokenIds)
    ELSE BaseDecode(vd, tokenIds)

\* tokenizer.train(text, vocab_size)
Train(text, vocab_size) ==
    LET r == TrainOf(variant, merge_dict, vocab_dict, text, vocab_size)
    IN  /\ merge_dict' = r.merge_dict
        /\ vocab_dict' = r.vocab_dict
        /\ trainCalls' = trainCalls + 1
        /\ trained' = [text |-> text, vocab_size |-> vocab_size, exc |-> r.exc,
                       work |-> r.work, trace |-> r.trace, merge_dict |-> merge_dict]
        /\ last' = [NoCall EXCEPT !.op = "train", !.text = text,
                                  !.vocab_size = vocab_size, !.exc = r.exc]
        /\ UNCHANGED <<variant, loadCalls, clean, instances, model_file, vocab_file, saved>>

\* train on an instance nothing was called on yet
TrainFresh(text, vocab_size) ==
    /\ trainCalls = 0
    /\ loadCalls = 0
    /\ Train(text, vocab_size)

\* train at any time
TrainAny(text, vocab_size) ==
    /\ trainCalls < MaxTrainCalls
    /\ Train(text, vocab_size)

\* tokenizer.encode(text)
Encode(text) ==
    LET r == EncodeOf(variant, merge_dict, text)
    IN  /\ last' = [NoCall EXCEPT !.op = "encode", !.text = text, !.exc = r.exc,
                                  !.ret = r.ret, !.picks = r.picks]
        /\ UNCHANGED <<variant, merge_dict, vocab_dict, trainCalls, loadCalls, clean,
                       instances, trained, model_file, vocab_file, saved>>

\* mutant: decode looks ids up with vocab_dict.setdefault(t, b""), which
\* enters every unknown id into the vocabulary
DecodeSetDefault(tokenIds) ==
    LET unknown == {tokenIds[k] : k \in DOMAIN tokenIds} \ DOMAIN vocab_dict
        filled  == [k \in DOMAIN vocab_dict \cup unknown |->
                       IF k \in unknown THEN <<>> ELSE vocab_dict[k]]
        r       == DecodeOf(variant, filled, tokenIds)
    IN  /\ vocab_dict' = filled
        /\ last' = [NoCall EXCEPT !.op = "decode", !.tokens = tokenIds, !.exc = r.exc,
                                  !.ret = r.ret]
        /\ UNCHANGED <<variant, merge_dict, trainCalls, loadCalls, clean,
                       instances, trained, model_file, vocab_file, saved>>

\* tokenizer.decode(tokenIds)
Decode(tokenIds) ==
    LET r == DecodeOf(variant, vocab_dict, tokenIds)
    IN  /\ last' = [NoCall EXCEPT !.op = "decode", !.tokens = tokenIds, !.exc = r.exc,
                                  !.ret = r.ret]
        /\ UNCHANGED <<variant, merge_dict, vocab_dict, trainCalls, loadCalls, clean,
                       instances, trained, model_file, vocab_file, saved>>

\* merge(oldList, pair, idx), called on a list the caller keeps
CallMerge(oldList, pair, idx) ==
    LET r == mergeCall(oldList, pair, idx)
    IN  /\ last' = [NoCall EXCEPT !.op = "merge", !.tokens = oldList, !.pair = pair,
                                  !.after = r.old, !.ret = r.new]
        /\ UNCHANGED <<variant, merge_dict, vocab_dict, trainCalls, loadCalls, clean,
                       instances, trained, model_file, vocab_file, saved>>

\* getPairStats(byteList, pairStats), called on a list the caller keeps
CallGetPairStats(byteList, pairStats) ==
    LET r == getPairStatsCall(byteList, pairStats)
    IN  /\ last' = [NoCall EXCEPT !.op = "getPairStats", !.tokens = byteList,
                                  !.after = r.old, !.stats = r.new]
        /\ UNCHANGED <<variant, merge_dict, vocab_dict, trainCalls, loadCalls, clean,
                       instances, trained, model_file, vocab_file, saved>>

\* tokenizer.save(file_name)
Save ==
    /\ model_file' = [exists |-> TRUE, content |-> WriteModel(merge_dict), clean |-> clean]
    /\ vocab_file' = WriteVocab(vocab_dict)
    /\ saved' = [variant |-> variant, merge_dict |-> merge_dict, vocab_dict |-> vocab_dict,
                 trainCalls |-> trainCalls, loadCalls |-> loadCalls]
    /\ last' = [NoCall EXCEPT !.op = "save"]
    /\ UNCHANGED <<variant, merge_dict, vocab_dict, trainCalls, loadCalls, clean,
                   instances, trained>>

\* tokenizer.load(model_file_name) of the file save wrote; open() raises
\* FileNotFoundError when there is none
LoadSaved ==
    /\ loadCalls < MaxLoadCalls
    /\ LET r == IF model_file.exists
                THEN LoadFile(merge_dict, vocab_dict, model_file.content)
                ELSE [exc |-> "FileNotFoundError", merge_dict |-> merge_dict,
                      vocab_dict |-> vocab_dict]
       IN  /\ merge_dict' = r.merge_dict
           /\ vocab_dict' = r.vocab_dict
           /\ clean' = (clean /\ model_file.clean)
           /\ last' = [NoCall EXCEPT !.op = "load", !.src = "saved", !.exc = r.exc]
    /\ loadCalls' = loadCalls + 1
    /\ UNCHANGED <<variant, trainCalls, instances, trained, model_file, vocab_file, saved>>

\* tokenizer.load(model_file_name) of a file written by hand
LoadHand(content) ==
    /\ loadCalls < MaxLoadCalls
    /\ LET r == LoadFile(merge_dict, vocab_dict, content)
       IN  /\ merge_dict' = r.merge_dict
           /\ vocab_dict' = r.vocab_dict
           /\ last' = [NoCall EXCEPT !.op = "load", !.src = "hand", !.exc = r.exc]
    /\ clean' = FALSE
    /\ loadCalls' = loadCalls + 1
    /\ UNCHANGED <<variant, trainCalls, instances, trained, model_file, vocab_file, saved>>

\* another tokenizer of the same class or of another one
Construct(v) ==
    /\ instances < MaxInstances
    /\ New(v)

\* --------------------------------------------- encode, iteration by iteration

\* The merge tables of the stepwise runs.  load stores whatever three integers
\* a line holds, so a table may hold any pairs and any ids: an id below 256,
\* one id for two pairs, a pair of ids no rule defines.
LoopIds == {97, 98, 256}
LoopVals == {97, 256}
LoopEntries == {[key |-> <<a, b>>, val |-> v] : a \in LoopIds, b \in LoopIds, v \in LoopVals}

\* most rules of such a table
MaxRules == 2

\* the place of a key in the order the tables list their rules in; encode
\* looks rules up by key only, the order of the table does not reach it
KeyOrder(key) == 1000 * key[1] + key[2]

RECURSIVE TablesUpTo(_)
TablesUpTo(n) ==
    IF n = 0 THEN {<<>>}
    ELSE LET shorter == TablesUpTo(n - 1)
             After(t) == {e \in LoopEntries :
                             \A k \in DOMAIN t : KeyOrder(t[k].key) < KeyOrder(e.key)}
         IN  shorter \cup
                 UNION {{Append(t, e) : e \in After(t)} :
                           t \in {u \in shorter : Len(u) = n - 1}}

LoopTables == TablesUpTo(MaxRules)

\* "aa aa" has the segments "aa" and " aa"
Str_aa_aa == <<97, 97, 32, 97, 97>>

LoopTexts == GenTexts \cup {Str_aaaa, Str_aa_aa, Str_surrogate}

\* the frame of an encode call: where it is (pc) and its local variables.
\* done lists the working sequences whose while loop has ended, one for each
\* segment (the flat variant has one, the whole text).
EncodeFrame(pc, text, exc, bytes_list, subword, pair, encoded_text, done, ret) ==
    [op |-> "encode", pc |-> pc, text |-> text, exc |-> exc, bytes_list |-> bytes_list,
     subword |-> subword, pair |-> pair, encoded_text |-> encoded_text, done |-> done,
     ret |-> ret]

InCall == last.op = "encode" /\ last.pc \in {"for", "while"}
Returned == last.op = "encode" /\ last.pc = "return"

\* a tokenizer that loaded a merge table
InitLoop ==
    /\ variant \in {"BasicTokenizer", "AdvanceTokenizer"}
    /\ \E table \in LoopTables :
           LET r == LoadFile(<<>>, build_vocab_dict(<<>>).vocab_dict, WriteModel(table))
           IN  /\ merge_dict = r.merge_dict
               /\ vocab_dict = r.vocab_dict
               /\ last = [NoCall EXCEPT !.op = "load", !.src = "hand", !.exc = r.exc]
    /\ trainCalls = 0
    /\ loadCalls = 1
    /\ clean = FALSE
    /\ trained = NotTrained
    /\ instances = 1
    /\ model_file = NoFile
    /\ vocab_file = {}
    /\ saved = NotSaved

\* encode is called: the text becomes bytes (flat) or the byte lists of its
\* segments (segmented), or text.encode raises
EncodeEnter(text) ==
    /\ last.op = "load"
    /\ last' =
           IF variant = "BasicTokenizer"
           THEN IF ~Utf8Encodable(text)
                THEN EncodeFrame("raised", text, "UnicodeEncodeError", <<>>, <<>>,
                                 <<>>, <<>>, <<>>, <<>>)
                ELSE EncodeFrame("while", text, NoExc, <<>>, Utf8Encode(text), <<>>,
                                 <<>>, <<>>, <<>>)
           ELSE IF \E k \in DOMAIN findall(text) : ~Utf8Encodable(findall(text)[k])
                THEN EncodeFrame("raised", text, "UnicodeEncodeError", <<>>, <<>>,
                                 <<>>, <<>>, <<>>, <<>>)
                ELSE EncodeFrame("for", text, NoExc, EncodeEach(findall(text)), <<>>,
                                 <<>>, <<>>, <<>>, <<>>)
    /\ UNCHANGED <<variant, merge_dict, vocab_dict, trainCalls, loadCalls, clean,
                   instances, trained, model_file, vocab_file, saved>>

\* for subword in bytes_list: the next segment
ForNext ==
    /\ last.op = "encode" /\ last.pc = "for"
    /\ last.bytes_list # <<>>
    /\ last' = [last EXCEPT !.pc = "while", !.subword = Head(last.bytes_list),
                            !.bytes_list = Tail(last.bytes_list)]
    /\ UNCHANGED <<variant, merge_dict, vocab_dict, trainCalls, loadCalls, clean,
                   instances, trained, model_file, vocab_file, saved>>

\* the for loop is through: return encoded_text
ForExit ==
    /\ last.op = "encode" /\ last.pc = "for"
    /\ last.bytes_list = <<>>
    /\ last' = [last EXCEPT !.pc = "return", !.ret = last.encoded_text]
    /\ UNCHANGED <<variant, merge_dict, vocab_dict, trainCalls, loadCalls, clean,
                   instances, trained, model_file, vocab_file, saved>>

\* pairStats = getPairStats(subword); pair = min(pairStats, key = ...): the
\* pair the iteration selects, <<>> when the list has no pair
SelectedPair(subword) ==
    IF Len(subword) < 2 THEN {<<>>}
    ELSE {MinRankKey(pairStats, merge_dict) : pairStats \in {getPairStats(subword, <<>>)}}

\* one iteration of the while loop that does not break
WhileIterate ==
    /\ last.op = "encode" /\ last.pc = "while"
    /\ Len(last.subword) >= 2
    /\ \E pair \in SelectedPair(last.subword) :
           /\ DictHas(merge_dict, pair)
           /\ \E idx \in {DictGet(merge_dict, pair)} :
                  last' = [last EXCEPT !.pair = pair,
                                       !.subword = merge(last.subword, pair, idx)]
    /\ UNCHANGED <<variant, merge_dict, vocab_dict, trainCalls, loadCalls, clean,
                   instances, trained, model_file, vocab_file, saved>>

\* the while loop ends, by its condition or by break: the flat variant
\* returns the list, the segmented one extends encoded_text with it
WhileExit ==
    /\ last.op = "encode" /\ last.pc = "while"
    /\ \E pair \in SelectedPair(last.subword) :
           Len(last.subword) < 2 \/ ~DictHas(merge_dict, pair)
    /\ last' =
           IF variant = "BasicTokenizer"
           THEN [last EXCEPT !.pc = "return", !.ret = last.subword,
                             !.done = <<last.subword>>]
           ELSE [last EXCEPT !.pc = "for",
                             !.encoded_text = last.encoded_text \o last.subword,
                             !.done = Append(last.done, last.subword)]
    /\ UNCHANGED <<variant, merge_dict, vocab_dict, trainCalls, loadCalls, clean,
                   instances, trained, model_file, vocab_file, saved>>

\* ------------------------------------------------------- specifications

\* A tokenizer that is constructed, trained at most once, and then used.
Next ==
    \/ \E text \in TrainTexts, vocab_size \in VocabSizes : TrainFresh(text, vocab_size)
    \/ \E text \in EncodeTexts : Encode(text)
    \/ \E tokenIds \in TokenLists : Decode(tokenIds)
    \/ \E oldList \in HelperLists, pair \in HelperPairs : CallMerge(oldList, pair, 99)
    \/ \E byteList \in HelperLists, pairStats \in HelperStats :
           CallGetPairStats(byteList, pairStats)

Spec == Init /\ [][Next]_vars

\* Any sequence of calls: tokenizers trained again, saved, constructed, loaded.
NextLife ==
    \/ \E text \in LifeTexts, vocab_size \in LifeVocabSizes : TrainAny(text, vocab_size)
    \/ \E text \in LifeEncodeTexts : Encode(text)
    \/ \E tokenIds \in LifeTokenLists : Decode(tokenIds)
    \/ Save
    \/ LoadSaved
    \/ \E content \in HandFiles : LoadHand(content)
    \/ \E v \in Variants \ {"BaseTokenizer"} : Construct(v)

SpecLife == Init /\ [][NextLife]_vars

\* One encode call on a tokenizer with a loaded table, an iteration at a
\* time.  A call that was entered runs on: the interpreter executes the next
\* statement of the loop whenever there is one.
NextLoop ==
    \/ \E text \in LoopTexts : EncodeEnter(text)
    \/ ForNext
    \/ ForExit
    \/ WhileIterate
    \/ WhileExit

SpecLoop ==
    InitLoop /\ [][NextLoop]_vars /\ WF_vars(ForNext \/ ForExit \/ WhileIterate \/ WhileExit)

\* ------------------------------------------------------------ the claims

BPE == {"BasicTokenizer", "AdvanceTokenizer"}

\* C1: round trip.  On a flat or segmented tokenizer that was trained at most
\* once since it was constructed, encode of a well-formed text returns, and
\* the vocabulary bytes of the tokens it returns are the UTF-8 bytes of the
\* text, so that decode gives the text back.
RoundTrip ==
    (variant \in BPE /\ last.op = "encode" /\ Utf8Encodable(last.text))
        => /\ last.exc = NoExc
           /\ \A k \in DOMAIN last.ret : last.ret[k] \in DOMAIN vocab_dict
           /\ JoinVocab(vocab_dict, last.ret) = Utf8Encode(last.text)
           /\ DecodeOf(variant, vocab_dict, last.ret) = [exc |-> NoExc, ret |-> last.text]

\* an encode that applied merges of a table of two rules to a text with a
\* two-byte character
RoundTripWitness ==
    /\ variant \in BPE
    /\ trainCalls = 1
    /\ Len(merge_dict) >= 2
    /\ last.op = "encode"
    /\ last.text = Str_eacute
    /\ Len(last.ret) < Len(Utf8Encode(last.text))

\* C2: early convergence.  A train call (vocab_size >= 256, well-formed text)
\* that runs out of adjacent pairs before it made the merges it was asked for
\* returns normally, with the merges learned so far in the tables.
TrainConvergesEarly ==
    (/\ variant \in BPE
     /\ last.op = "train"
     /\ last.vocab_size >= 256
     /\ Utf8Encodable(last.text)
     /\ Len(trained.trace) < last.vocab_size - 256)
        => /\ last.exc = NoExc
           /\ Len(merge_dict) = Len(trained.trace)

\* C5: encode reproduces training's merge order.  On a flat tokenizer trained
\* at most once, encode returns what applying every rule once, in table order,
\* to the bytes of the text gives; the rules the loop selects have strictly
\* increasing ranks; and encode of the training text is the trainer's final
\* working sequence.
RECURSIVE ApplyInOrder(_, _)
ApplyInOrder(rules, ids) ==
    IF rules = <<>> THEN ids
    ELSE ApplyInOrder(Tail(rules), merge(ids, Head(rules).key, Head(rules).val))

EncodeFollowsTraining ==
    /\ (variant = "BasicTokenizer" /\ last.op = "encode" /\ last.exc = NoExc)
           => /\ last.ret = ApplyInOrder(merge_dict, Utf8Encode(last.text))
              /\ \A k \in 1..(Len(last.picks) - 1) :
                     DictPos(merge_dict, last.picks[k])
                         < DictPos(merge_dict, last.picks[k + 1])
    /\ (variant = "BasicTokenizer" /\ trainCalls = 1 /\ trained.work # <<>>)
           => BasicEncode(merge_dict, trained.text).ret = trained.work[1]

\* an encode whose loop applied two rules or more
EncodeFollowsTrainingWitness ==
    /\ variant = "BasicTokenizer"
    /\ last.op = "encode"
    /\ Len(last.picks) >= 2
    /\ Len(merge_dict) > Len(last.picks)

\* C6: merge monotonicity.  When training on C with vocab_size m completed,
\* every text encodes into no more tokens than under the tokenizer trained on
\* C with a smaller vocab_size n >= 256.
MergeMonotone ==
    (/\ variant \in BPE
     /\ trainCalls = 1
     /\ trained.exc = NoExc
     /\ last.op = "encode"
     /\ last.exc = NoExc)
        => \A n \in 256..trained.vocab_size :
               LET smaller == TrainOf(variant, <<>>, build_vocab_dict(<<>>).vocab_dict,
                                      trained.text, n)
               IN  smaller.exc = NoExc
                       => Len(last.ret)
                              <= Len(EncodeOf(variant, smaller.merge_dict, last.text).ret)

\* an encode under three rules that is shorter than under the first rule alone
MergeMonotoneWitness ==
    /\ variant \in BPE
    /\ trainCalls = 1
    /\ trained.exc = NoExc
    /\ trained.vocab_size = 259
    /\ last.op = "encode"
    /\ last.exc = NoExc
    /\ Len(last.ret) < Len(EncodeOf(variant, SubSeq(merge_dict, 1, 1), last.text).ret)

\* C7: pair selection and tie-break.  Every iteration of train selected a pair
\* whose adjacent count over the working sequence (summed over the segments)
\* is the greatest, and among the pairs with that count the one that occurs
\* first; flat training on "aaabdaaabac" with vocab_size 259 learns
\* (97,97)->256, (256,97)->257, (257,98)->258, and encode of "aaabac" then
\* returns [258, 97, 99].
CountIn(seg, pair) ==
    Cardinality({i \in 1..(Len(seg) - 1) : seg[i] = pair[1] /\ seg[i + 1] = pair[2]})

RECURSIVE CountAll(_, _)
CountAll(work, pair) ==
    IF work = <<>> THEN 0 ELSE CountIn(Head(work), pair) + CountAll(Tail(work), pair)

PairsOf(work) ==
    {<<work[j][i], work[j][i + 1]>> : <<j, i>> \in
        {x \in (DOMAIN work) \X (1..Len(Flatten(work))) : x[2] < Len(work[x[1]])}}

\* the first place of pair in the scan: segment by segment, left to right
FirstPlace(work, pair) ==
    LET width  == Len(Flatten(work)) + 1
        places == {j * width + i : <<j, i>> \in
                      {x \in (DOMAIN work) \X (1..width) :
                          /\ x[2] < Len(work[x[1]])
                          /\ work[x[1]][x[2]] = pair[1]
                          /\ work[x[1]][x[2] + 1] = pair[2]}}
    IN  CHOOSE x \in places : \A y \in places : x <= y

SelectedByCount(step) ==
    /\ step.pair \in PairsOf(step.work)
    /\ \A q \in PairsOf(step.work) :
           /\ CountAll(step.work, q) <= CountAll(step.work, step.pair)
           /\ (q # step.pair /\ CountAll(step.work, q) = CountAll(step.work, step.pair))
                  => FirstPlace(step.work, step.pair) < FirstPlace(step.work, q)

Rule(p0, p1, idx) == [key |-> <<p0, p1>>, val |-> idx]

PairSelection ==
    /\ \A k \in DOMAIN trained.trace : SelectedByCount(trained.trace[k])
    /\ (/\ variant = "BasicTokenizer"
        /\ trainCalls = 1
        /\ trained.text = Str_aaabdaaabac
        /\ trained.vocab_size = 259)
           => /\ merge_dict = <<Rule(97, 97, 256), Rule(256, 97, 257), Rule(257, 98, 258)>>
              /\ CountAll(trained.trace[1].work, <<97, 97>>) = 4
              /\ (last.op = "encode" /\ last.text = Str_aaabac)
                     => last.ret = <<258, 97, 99>>

\* encode of "aaabac" after the flat training of the scenario, whose second
\* iteration had two pairs tied at the greatest count
PairSelectionWitness ==
    /\ variant = "BasicTokenizer"
    /\ trained.text = Str_aaabdaaabac
    /\ trained.vocab_size = 259
    /\ CountAll(trained.trace[2].work, <<97, 98>>)
           = CountAll(trained.trace[2].work, trained.trace[2].pair)
    /\ last.op = "encode"
    /\ last.text = Str_aaabac
    /\ last.ret = <<258, 97, 99>>

\* C8: segment independence.  The segmented encode returns the flat encode
\* loop's results on the segments, joined in order; wherever a text splits
\* into A and B whose segmentations join to the segmentation of the text,
\* encode(A + B) = encode(A) ++ encode(B); and throughout segmented training
\* every segment of the working sequence spells the bytes of its own segment
\* of the text, the selected pair lying inside a segment.
RECURSIVE FlatPerSegment(_, _)
FlatPerSegment(md, segments) ==
    IF segments = <<>> THEN <<>>
    ELSE BasicEncodeLoop(md, Utf8Encode(Head(segments)), <<>>).ret
             \o FlatPerSegment(md, Tail(segments))

SpellsSegments(work, text) ==
    /\ Len(work) = Len(findall(text))
    /\ \A j \in DOMAIN work :
           JoinVocab(vocab_dict, work[j]) = Utf8Encode(findall(text)[j])

SegmentIndependence ==
    /\ (variant = "AdvanceTokenizer" /\ last.op = "encode" /\ last.exc = NoExc)
           => /\ last.ret = FlatPerSegment(merge_dict, findall(last.text))
              /\ \A cut \in 0..Len(last.text) :
                     LET A == SubSeq(last.text, 1, cut)
                         B == SubSeq(last.text, cut + 1, Len(last.text))
                     IN  findall(A) \o findall(B) = findall(last.text)
                             => last.ret = AdvanceEncode(merge_dict, A).ret
                                               \o AdvanceEncode(merge_dict, B).ret
    /\ (variant = "AdvanceTokenizer" /\ trainCalls = 1 /\ trained.exc \in {NoExc, "ValueError"})
           => /\ SpellsSegments(trained.work, trained.text)
              /\ \A k \in DOMAIN trained.trace :
                     /\ SpellsSegments(trained.trace[k].work, trained.text)
                     /\ CountAll(trained.trace[k].work, trained.trace[k].pair) >= 1

\* a segmented encode of a text of several segments, one of which ends with
\* the symbol the next one starts with, that applied a merge
SegmentIndependenceWitness ==
    /\ variant = "AdvanceTokenizer"
    /\ trainCalls = 1
    /\ last.op = "encode"
    /\ Len(findall(last.text)) >= 2
    /\ last.picks # <<>>
    /\ \E j \in 1..(Len(findall(last.text)) - 1) :
           LET seg == findall(last.text)[j]
           IN  seg[Len(seg)] = findall(last.text)[j + 1][1]

\* C10: frame.  A call of encode or decode, whether it returns or raises,
\* leaves merge_dict and vocab_dict as they were; merge and getPairStats leave
\* the list they are given as it was, and merge returns a list no longer than
\* it.
FrameStep ==
    /\ last'.op \in {"encode", "decode"}
           => merge_dict' = merge_dict /\ vocab_dict' = vocab_dict
    /\ last'.op \in {"merge", "getPairStats"} => last'.after = last'.tokens
    /\ last'.op = "merge" => Len(last'.ret) <= Len(last'.tokens)

Frame == [][FrameStep]_vars

\* a decode that raised on an unknown id, on a trained tokenizer
FrameWitness ==
    /\ variant \in BPE
    /\ Len(merge_dict) >= 1
    /\ last.op = "decode"
    /\ last.exc = "KeyError"

\* C3: vocabulary invariant.  Between calls, whatever calls were made and
\* whether they returned or raised, vocab_dict[b] is the byte b for b in
\* 0..255, every rule's id is in the vocabulary with the bytes of its left
\* symbol followed by those of its right symbol, and the vocabulary holds
\* nothing else.
VocabInvariant ==
    /\ \A b \in 0..255 : b \in DOMAIN vocab_dict /\ vocab_dict[b] = <<b>>
    /\ \A k \in DOMAIN merge_dict :
           LET key == merge_dict[k].key
               val == merge_dict[k].val
           IN  /\ {key[1], key[2], val} \subseteq DOMAIN vocab_dict
               /\ vocab_dict[val] = vocab_dict[key[1]] \o vocab_dict[key[2]]
    /\ DOMAIN vocab_dict \subseteq (0..255) \cup {merge_dict[k].val : k \in DOMAIN merge_dict}

\* C4: merge id assignment.  On an instance changed only by train calls and
\* by loads of files that save wrote, the k-th rule of the table, counted from
\* 0 in insertion order, has id 256 + k.
MergeIdAssignment ==
    clean => \A k \in DOMAIN merge_dict : merge_dict[k].val = 256 + (k - 1)

\* C9: persistence round trip.  When a tokenizer that was only trained is
\* saved and the file is loaded into a newly constructed tokenizer of the same
\* class, load returns and the new instance has the merge table, in the same
\* order, and the vocabulary of the saved one, and encodes and decodes as it
\* did.
PersistenceRoundTrip ==
    (/\ last.op = "load"
     /\ last.src = "saved"
     /\ trainCalls = 0
     /\ loadCalls = 1
     /\ model_file.exists
     /\ saved.variant = variant
     /\ saved.trainCalls >= 1
     /\ saved.loadCalls = 0)
        => /\ last.exc = NoExc
           /\ merge_dict = saved.merge_dict
           /\ vocab_dict = saved.vocab_dict
           /\ \A text \in LifeEncodeTexts :
                  EncodeOf(variant, merge_dict, text)
                      = EncodeOf(variant, saved.merge_dict, text)
           /\ \A tokenIds \in LifeTokenLists :
                  DecodeOf(variant, vocab_dict, tokenIds)
                      = DecodeOf(variant, saved.vocab_dict, tokenIds)

\* the adjacent pairs of a list
AdjacentPairs(list) == {<<list[i], list[i + 1]>> : i \in 1..(Len(list) - 1)}

\* an iteration that does not break merges a pair of the table that occurs
\* in the working sequence, and leaves the sequence strictly shorter
ShortenStep ==
    (last.op = "encode" /\ last.pc = "while" /\ last'.pc = "while")
        => /\ last'.pair \in AdjacentPairs(last.subword)
           /\ DictHas(merge_dict, last'.pair)
           /\ Len(last'.subword) < Len(last.subword)

\* the call returned: the list returned is the finished segments joined, the
\* one the encode operator computes, and no adjacent pair inside a finished
\* segment is a key of the table
FixpointAtReturn ==
    Returned =>
        /\ last.ret = Flatten(last.done)
        /\ last.ret = EncodeOf(variant, merge_dict, last.text).ret
        /\ \A k \in DOMAIN last.done :
               \A pair \in AdjacentPairs(last.done[k]) : ~DictHas(merge_dict, pair)

\* C11: encode terminates at a fixpoint.  Whatever the merge table and the
\* text, every iteration of the encode loop (flat, and per segment in the
\* segmented variant) that does not break applies a merge whose pair occurs
\* in the current sequence and strictly shortens it, a call that entered its
\* loop returns, and no adjacent pair of the returned sequence (within a
\* segment, for the segmented variant) is a key of the merge table.
EncodeTerminates ==
    /\ [][ShortenStep]_vars
    /\ []FixpointAtReturn
    /\ InCall ~> Returned

\* a segmented call returned after merging, on a table with an id below 256,
\* with a finished segment of two tokens or more
EncodeTerminatesWitness ==
    /\ Returned
    /\ variant = "AdvanceTokenizer"
    /\ Len(last.done) >= 2
    /\ Len(last.ret) < Len(Utf8Encode(last.text))
    /\ \E k \in DOMAIN last.done : Len(last.done[k]) >= 2
    /\ \E k \in DOMAIN merge_dict : merge_dict[k].val < 256

====
